---- MODULE Spec2Model ----
(***************************************************************************)
(* Model of src/src/err.rs (rust-cpython): the PyErr triple, the bridge to  *)
(* the interpreter's global error indicator, normalization, and the result *)
(* adapters.  The interpreter is modelled as a reference-counted heap plus *)
(* the three-pointer error indicator ("slot").  The ffi::PyErr_* routines  *)
(* are modelled after CPython's Python/errors.c and pythonrun.c, which is  *)
(* what the calls in err.rs link against.                                  *)
(***************************************************************************)
EXTENDS Integers, Sequences, FiniteSets, TLC

\* ---------------------------------------------------------------- bounds
MaxHeld == 2
MaxAlloc == 1

\* ------------------------------------------------------- the object heap
NULL == 0

\* Statically allocated interpreter objects (heap indices).
SystemError == 1
TypeError == 2
ValueError == 3
UnicodeDecodeError == 4
StrType == 5
NoneObj == 6
Msg == 7
Inst == 8
Tb == 9

BaseExceptionMsg == "exceptions must derive from BaseException"

\* k: "exctype" (class derived from BaseException), "type" (any other type
\* object), "inst" (exception instance), "str", "none", "tb".
\* cls: class of an instance; base: parent class of an exception class;
\* args: the object an instance was constructed from (a reference it owns);
\* txt: content of a string; rc: reference count.
Obj(k, cls, base, args, txt, rc) ==
    [k |-> k, cls |-> cls, base |-> base, args |-> args, txt |-> txt, rc |-> rc]

InitHeap ==
    << Obj("exctype", NULL, NULL, NULL, "", 1),          \* SystemError
       Obj("exctype", NULL, NULL, NULL, "", 1),          \* TypeError
       Obj("exctype", NULL, NULL, NULL, "", 1),          \* ValueError
       Obj("exctype", NULL, ValueError, NULL, "", 1),    \* UnicodeDecodeError
       Obj("type", NULL, NULL, NULL, "", 1),             \* str
       Obj("none", NULL, NULL, NULL, "", 1),             \* None
       Obj("str", StrType, NULL, NULL, "msg", 1),        \* a message string
       Obj("inst", UnicodeDecodeError, NULL, NULL, "", 1), \* an exception instance
       Obj("tb", NULL, NULL, NULL, "", 1) >>             \* a traceback

Caps == {"PyType", "PyString"}
\* libc::c_int is 32 bits wide
CInts == {-2, -1, 0}

NStatic == Len(InitHeap)

Py_INCREF(h, p) == [h EXCEPT ![p].rc = @ + 1]

Py_XINCREF(h, p) == IF p = NULL THEN h ELSE Py_INCREF(h, p)

\* Py_DECREF: at zero the object is deallocated: it releases what it owns
\* and its memory returns to the allocator.
Freed == Obj("freed", NULL, NULL, NULL, "", 0)

RECURSIVE Py_DECREF(_, _)
Py_DECREF(h, p) ==
    LET h1 == [h EXCEPT ![p].rc = @ - 1]
    IN IF h1[p].rc # 0 THEN h1
       ELSE LET h2 == IF h1[p].args # NULL THEN Py_DECREF(h1, h1[p].args) ELSE h1
            IN IF p > NStatic THEN [h2 EXCEPT ![p] = Freed] ELSE h2

Py_XDECREF(h, p) == IF p = NULL THEN h ELSE Py_DECREF(h, p)

PyExceptionClass_Check(h, p) == h[p].k = "exctype"

PyExceptionInstance_Check(h, p) == h[p].k = "inst"

PyExceptionInstance_Class(h, p) == h[p].cls

RECURSIVE PyObject_IsSubclass(_, _, _)
PyObject_IsSubclass(h, a, b) ==
    IF a = b THEN TRUE
    ELSE IF h[a].base = NULL THEN FALSE
    ELSE PyObject_IsSubclass(h, h[a].base, b)

\* ------------------------------------------ the global error indicator
EmptySlot == [ptype |-> NULL, pvalue |-> NULL, ptraceback |-> NULL]

Slot(t, v, tb) == [ptype |-> t, pvalue |-> v, ptraceback |-> tb]

\* PyErr_Occurred: borrowed pointer to the pending type, NULL if none.

\* Fault: the pending value is looked at, not the pending type.
PyErr_Occurred_value(s) == s.pvalue

PyErr_Occurred(s) == s.ptype

\* PyErr_Fetch: hands the three references out and clears the indicator.
PyErr_Fetch(s) == [out |-> s, slot |-> EmptySlot]

\* PyErr_Restore: steals the three references, releases what was there.
PyErr_Restore(h, s, t, v, tb) ==
    [heap |-> Py_XDECREF(Py_XDECREF(Py_XDECREF(h, s.ptype), s.pvalue), s.ptraceback),
     slot |-> Slot(t, v, tb)]

\* ---------------------------------------------------- object construction
\* A new object gets one reference and the first free place of the heap.
FreePlaces(h) == {q \in 1..Len(h) : h[q].k = "freed"}

NewPtr(h) ==
    IF FreePlaces(h) = {} THEN Len(h) + 1
    ELSE CHOOSE q \in FreePlaces(h) : \A q2 \in FreePlaces(h) : q <= q2

Alloc(h, o) ==
    IF FreePlaces(h) = {} THEN Append(h, o) ELSE [h EXCEPT ![NewPtr(h)] = o]

\* PyErr_SetString(exc, msg): PyErr_Restore(exc, new string, NULL).
PyErr_SetString(h, s, exc, msg) ==
    LET h1 == Alloc(h, Obj("str", StrType, NULL, NULL, msg, 1))
    IN PyErr_Restore(Py_INCREF(h1, exc), s, exc, NewPtr(h), NULL)

\* PyErr_NormalizeException(&type, &value, &tb), Python/errors.c.  A NULL
\* value becomes None; if type is an exception class and value is not an
\* instance of it (or of a subclass), value becomes type(value) (type() for
\* None); if value is an instance of a proper subclass, type becomes that
\* subclass.  The constructor call is taken to succeed.
PyErr_NormalizeException(h, s, type, val, tb) ==
    IF type = NULL
    THEN [heap |-> h, slot |-> s, ptype |-> type, pvalue |-> val, ptraceback |-> tb]
    ELSE
    LET value == IF val = NULL THEN NoneObj ELSE val
        h0 == IF val = NULL THEN Py_INCREF(h, NoneObj) ELSE h
        inclass == IF PyExceptionInstance_Check(h0, value)
                   THEN PyExceptionInstance_Class(h0, value) ELSE NULL
    IN IF ~PyExceptionClass_Check(h0, type)
       THEN [heap |-> h0, slot |-> s, ptype |-> type, pvalue |-> value, ptraceback |-> tb]
       ELSE IF inclass = NULL \/ ~PyObject_IsSubclass(h0, inclass, type)
       THEN \* res = type(*args); Py_DECREF(value); value = res
            LET held == IF value = NoneObj THEN NULL ELSE value
                h1 == Alloc(h0, Obj("inst", type, NULL, held, "", 1))
                h2 == IF value = NoneObj THEN Py_DECREF(h1, NoneObj) ELSE h1
            IN [heap |-> h2, slot |-> s, ptype |-> type,
                pvalue |-> NewPtr(h0), ptraceback |-> tb]
       ELSE IF inclass # type
       THEN [heap |-> Py_INCREF(Py_DECREF(h0, type), inclass), slot |-> s,
             ptype |-> inclass, pvalue |-> value, ptraceback |-> tb]
       ELSE [heap |-> h0, slot |-> s, ptype |-> type, pvalue |-> value, ptraceback |-> tb]

NothingPrinted == <<>>

\* PyErr_PrintEx(set_sys_last_vars), Python/pythonrun.c: fetch, return if
\* nothing is pending, normalize, display on sys.stderr, release.  With
\* set_sys_last_vars the error is also stored in sys.last_type, last_value
\* and last_traceback; those references belong to the sys module and are
\* not counted in rc here.
PyErr_PrintEx(h, s, set_sys_last_vars) ==
    LET f == PyErr_Fetch(s)
    IN IF f.out.ptype = NULL
       THEN [heap |-> h, slot |-> f.slot, printed |-> NothingPrinted]
       ELSE
       LET n == PyErr_NormalizeException(h, f.slot, f.out.ptype, f.out.pvalue,
                                         f.out.ptraceback)
       IN [heap |-> Py_XDECREF(Py_DECREF(Py_DECREF(n.heap, n.ptype), n.pvalue),
                               n.ptraceback),
           slot |-> n.slot, printed |-> <<n.ptype, n.pvalue>>]

\* PyErr_WarnEx: 0, or -1 with an error set when the warning filters turn
\* the warning into an exception (the error raised is of the category).
PyErr_WarnEx(h, s, category, stack_level, escalate) ==
    IF escalate
    THEN LET r == PyErr_SetString(h, s, category, "warning")
         IN [heap |-> r.heap, slot |-> r.slot, result |-> -1]
    ELSE [heap |-> h, slot |-> s, result |-> 0]

\* Checked downcast of an object to a more specific handle type.
DowncastCheck(h, p, cap) ==
    IF cap = "PyType" THEN h[p].k \in {"type", "exctype"} ELSE h[p].k = "str"

\* ------------------------------------------------------ handle primitives
\* PyObject::from_owned_ptr takes over a reference, from_borrowed_ptr adds
\* one, steal_ptr gives the reference up without releasing it, drop releases.
from_owned_ptr(h, p) == h

from_borrowed_ptr(h, p) == Py_INCREF(h, p)

clone_object(h, p) == Py_INCREF(h, p)

drop_object(h, p) == Py_DECREF(h, p)

drop_option(h, p) == IF p = NULL THEN h ELSE drop_object(h, p)

\* py.get_type::<T>(): a new reference to T's type object.
get_type(h, T) == from_borrowed_ptr(h, T)

\* ------------------------------------------------------------ struct PyErr
\* pvalue and ptraceback are Option<PyObject>; NULL stands for None.
PyErr(t, v, tb) == [ptype |-> t, pvalue |-> v, ptraceback |-> tb]

NoErr == PyErr(NULL, NULL, NULL)

\* what an operation returns: tag is "Ok", "Err", "Panic" or "Unit"; ffi is
\* the sequence of runtime routines it called that work on the error
\* indicator, in call order.
Res(h, s, tag, err, obj) ==
    [heap |-> h, slot |-> s, tag |-> tag, err |-> err, obj |-> obj, ffi |-> <<>>]

\* The routine c is called, then what r did.
Via(c, r) == [r EXCEPT !.ffi = <<c>> \o @]

occurred(s) == PyErr_Occurred(s) # NULL

\* Fault: the fallback for a null type is TypeError, not SystemError.
new_from_ffi_tuple_wrong_fallback(h, ptype, pvalue, ptraceback) ==
    IF ptype = NULL
    THEN [heap |-> get_type(h, TypeError),
          err |-> PyErr(TypeError, pvalue, ptraceback)]
    ELSE [heap |-> from_owned_ptr(h, ptype),
          err |-> PyErr(ptype, pvalue, ptraceback)]


\* Fault: a null type is passed on as it is.
new_from_ffi_tuple_no_fallback(h, ptype, pvalue, ptraceback) ==
    [heap |-> h, err |-> PyErr(ptype, pvalue, ptraceback)]

new_from_ffi_tuple(h, ptype, pvalue, ptraceback) ==
    IF ptype = NULL
    THEN [heap |-> get_type(h, SystemError),
          err |-> PyErr(SystemError, pvalue, ptraceback)]
    ELSE [heap |-> from_owned_ptr(h, ptype),
          err |-> PyErr(ptype, pvalue, ptraceback)]

\* Fault: the indicator is read but not cleared.
fetch_without_clearing(h, s) ==
    LET r == new_from_ffi_tuple(h, s.ptype, s.pvalue, s.ptraceback)
    IN Via("PyErr_Fetch", Res(r.heap, s, "Ok", r.err, NULL))

fetch(h, s) ==
    LET f == PyErr_Fetch(s)
        r == new_from_ffi_tuple(h, f.out.ptype, f.out.pvalue, f.out.ptraceback)
    IN Via("PyErr_Fetch", Res(r.heap, f.slot, "Ok", r.err, NULL))

\* assert!(PyExceptionClass_Check(ty)): on failure ty and value are dropped
\* by the unwinding and no PyErr is built.

\* Fault: the assertion is missing.
new_helper_unchecked(h, s, ty, value) ==
    Res(h, s, "Ok", PyErr(ty, value, NULL), NULL)

new_helper(h, s, ty, value) ==
    IF PyExceptionClass_Check(h, ty)
    THEN Res(h, s, "Ok", PyErr(ty, value, NULL), NULL)
    ELSE Res(drop_object(drop_object(h, value), ty), s, "Panic", NoErr, NULL)

\* PyErr::new::<T, V>(py, value), V a borrowed object: to_py_object clones.
new(h, s, T, value) == new_helper(clone_object(get_type(h, T), value), s, T, value)

\* Fault: whatever is not an exception instance is taken for a class.
from_instance_helper_unchecked(h, s, obj) ==
    IF PyExceptionInstance_Check(h, obj)
    THEN LET c == PyExceptionInstance_Class(h, obj)
         IN Res(from_borrowed_ptr(h, c), s, "Ok", PyErr(c, obj, NULL), NULL)
    ELSE Res(h, s, "Ok", PyErr(obj, NULL, NULL), NULL)

from_instance_helper(h, s, obj) ==
    IF PyExceptionInstance_Check(h, obj)
    THEN LET c == PyExceptionInstance_Class(h, obj)
         IN Res(from_borrowed_ptr(h, c), s, "Ok", PyErr(c, obj, NULL), NULL)
    ELSE IF PyExceptionClass_Check(h, obj)
    THEN Res(h, s, "Ok", PyErr(obj, NULL, NULL), NULL)
    ELSE LET h1 == get_type(h, TypeError)
             h2 == Alloc(h1, Obj("str", StrType, NULL, NULL, BaseExceptionMsg, 1))
         IN Res(drop_object(h2, obj), s, "Ok", PyErr(TypeError, NewPtr(h1), NULL), NULL)

from_instance(h, s, obj) == from_instance_helper(h, s, obj)

new_lazy_init(exc, value) == PyErr(exc, value, NULL)

\* Fault: value and traceback change places in the call.
restore_swapped(h, s, e) ==
    LET r == PyErr_Restore(h, s, e.ptype, e.ptraceback, e.pvalue)
    IN Via("PyErr_Restore", Res(r.heap, r.slot, "Unit", NoErr, NULL))

\* Fault: as_ptr() in place of steal_ptr(): the handles are dropped after
\* the call that stole their references.
restore_releasing(h, s, e) ==
    LET r == PyErr_Restore(h, s, e.ptype, e.pvalue, e.ptraceback)
        h1 == drop_option(drop_option(drop_object(r.heap, e.ptype), e.pvalue),
                          e.ptraceback)
    IN Via("PyErr_Restore", Res(h1, r.slot, "Unit", NoErr, NULL))

restore(h, s, e) ==
    LET r == PyErr_Restore(h, s, e.ptype, e.pvalue, e.ptraceback)
    IN Via("PyErr_Restore", Res(r.heap, r.slot, "Unit", NoErr, NULL))


\* Fault: the PyErr is rebuilt with the type it had, not the type the
\* routine gave back.
into_normalized_keeping_type(h, s, e) ==
    LET n == PyErr_NormalizeException(h, s, e.ptype, e.pvalue, e.ptraceback)
        r == new_from_ffi_tuple(n.heap, e.ptype, n.pvalue, n.ptraceback)
    IN Res(r.heap, n.slot, "Unit", r.err, NULL)

into_normalized(h, s, e) ==
    LET n == PyErr_NormalizeException(h, s, e.ptype, e.pvalue, e.ptraceback)
        r == new_from_ffi_tuple(n.heap, n.ptype, n.pvalue, n.ptraceback)
    IN Res(r.heap, n.slot, "Unit", r.err, NULL)

normalize(h, s, e) == into_normalized(h, s, e)

\* Fault: the value is read before the error is normalized.
instance_before_normalize(h, s, e) ==
    LET n == normalize(h, s, e)
    IN IF e.pvalue # NULL
       THEN Res(clone_object(n.heap, e.pvalue), n.slot, "Ok", n.err, e.pvalue)
       ELSE Res(from_borrowed_ptr(n.heap, NoneObj), n.slot, "Ok", n.err, NoneObj)


\* Fault: the value is handed out without a reference of its own.
instance_without_clone(h, s, e) ==
    LET n == normalize(h, s, e)
    IN IF n.err.pvalue # NULL
       THEN Res(n.heap, n.slot, "Ok", n.err, n.err.pvalue)
       ELSE Res(from_borrowed_ptr(n.heap, NoneObj), n.slot, "Ok", n.err, NoneObj)

instance(h, s, e) ==
    LET n == normalize(h, s, e)
    IN IF n.err.pvalue # NULL
       THEN Res(clone_object(n.heap, n.err.pvalue), n.slot, "Ok", n.err, n.err.pvalue)
       ELSE Res(from_borrowed_ptr(n.heap, NoneObj), n.slot, "Ok", n.err, NoneObj)

\* print(self) / print_and_set_sys_last_vars(self)

\* Fault: the print routine is called before the error is restored.
print_ex_before_restore(h, s, e, set_sys_last_vars) ==
    LET q == PyErr_PrintEx(h, s, set_sys_last_vars)
        r == restore(q.heap, q.slot, e)
    IN [heap |-> r.heap, slot |-> r.slot, printed |-> q.printed,
        tag |-> "Unit", err |-> NoErr, obj |-> NULL,
        ffi |-> <<"PyErr_PrintEx">> \o r.ffi]

print_ex(h, s, e, set_sys_last_vars) ==
    LET r == restore(h, s, e)
        q == PyErr_PrintEx(r.heap, r.slot, set_sys_last_vars)
    IN [heap |-> q.heap, slot |-> q.slot, printed |-> q.printed,
        tag |-> "Unit", err |-> NoErr, obj |-> NULL,
        ffi |-> r.ffi \o <<"PyErr_PrintEx">>]

print(h, s, e) == print_ex(h, s, e, FALSE)

print_and_set_sys_last_vars(h, s, e) == print_ex(h, s, e, TRUE)

\* -------------------------------------------------------- result adapters
\* Fault: every negative result is taken for a failure.
error_on_negative(h, s, result) ==
    IF result >= 0
    THEN Res(h, s, "Ok", NoErr, NULL)
    ELSE [fetch(h, s) EXCEPT !.tag = "Err"]


\* Fault: the pending error is read and left in the indicator.
error_on_minusone_peeking(h, s, result) ==
    IF result # -1
    THEN Res(h, s, "Ok", NoErr, NULL)
    ELSE [fetch_without_clearing(h, s) EXCEPT !.tag = "Err"]

error_on_minusone(h, s, result) ==
    IF result # -1
    THEN Res(h, s, "Ok", NoErr, NULL)
    ELSE [fetch(h, s) EXCEPT !.tag = "Err"]

\* CString::new(message).unwrap() panics on an interior NUL byte.
warn(h, s, category, message, stacklevel, escalate) ==
    IF \E k \in 1..Len(message) : message[k] = 0
    THEN Res(h, s, "Panic", NoErr, NULL)
    ELSE LET w == PyErr_WarnEx(h, s, category, stacklevel, escalate)
         IN Via("PyErr_WarnEx", error_on_minusone(w.heap, w.slot, w.result))

\* From<PythonObjectDowncastError> for PyErr
from_downcast_error(h) == [heap |-> get_type(h, TypeError),
                           err |-> new_lazy_init(TypeError, NULL)]

\* Fault: the owned pointer is treated as borrowed (one reference too many).
result_from_borrowed_ptr(h, s, p) ==
    IF p = NULL
    THEN [fetch(h, s) EXCEPT !.tag = "Err"]
    ELSE Res(from_borrowed_ptr(h, p), s, "Ok", NoErr, p)

result_from_owned_ptr(h, s, p) ==
    IF p = NULL
    THEN [fetch(h, s) EXCEPT !.tag = "Err"]
    ELSE Res(from_owned_ptr(h, p), s, "Ok", NoErr, p)

\* PyErr_Print() is PyErr_PrintEx(1); then panic!().
panic_after_error(h, s) ==
    LET q == PyErr_PrintEx(h, s, TRUE)
    IN [heap |-> q.heap, slot |-> q.slot, printed |-> q.printed,
        tag |-> "Panic", err |-> NoErr, obj |-> NULL, ffi |-> <<"PyErr_Print">>]

Quiet(r) ==
    [heap |-> r.heap, slot |-> r.slot, printed |-> NothingPrinted,
     tag |-> r.tag, err |-> r.err, obj |-> r.obj, ffi |-> r.ffi]

\* Fault: no null check.
from_owned_ptr_unchecked(h, s, p) ==
    Quiet(Res(from_owned_ptr(h, p), s, "Ok", NoErr, p))

from_owned_ptr_or_panic(h, s, p) ==
    IF p = NULL
    THEN panic_after_error(h, s)
    ELSE Quiet(Res(from_owned_ptr(h, p), s, "Ok", NoErr, p))

\* cast_into() consumes the handle; on a failed check the object is dropped
\* and a PythonObjectDowncastError comes back.

\* Fault: a failed downcast is reported as Err(fetch()).
result_cast_fetching(h, s, p, cap) ==
    IF p = NULL \/ ~DowncastCheck(h, p, cap)
    THEN [fetch(drop_option(h, p), s) EXCEPT !.tag = "Err"]
    ELSE Res(from_owned_ptr(h, p), s, "Ok", NoErr, p)

result_cast_from_owned_ptr(h, s, p, cap) ==
    IF p = NULL
    THEN [fetch(h, s) EXCEPT !.tag = "Err"]
    ELSE IF DowncastCheck(h, p, cap)
    THEN Res(from_owned_ptr(h, p), s, "Ok", NoErr, p)
    ELSE LET c == from_downcast_error(drop_object(from_owned_ptr(h, p), p))
         IN Res(c.heap, s, "Err", c.err, NULL)

cast_from_owned_ptr_or_panic(h, s, p, cap) ==
    IF p = NULL
    THEN panic_after_error(h, s)
    ELSE IF DowncastCheck(h, p, cap)
    THEN Quiet(Res(from_owned_ptr(h, p), s, "Ok", NoErr, p))
    ELSE \* .unwrap() on Err panics
         Quiet(Res(drop_object(from_owned_ptr(h, p), p), s, "Panic", NoErr, NULL))

\* ================================================================= state
\* heap: the interpreter's objects; slot: its error indicator; errs: the
\* PyErr values the host holds; objs: the
\* PyObject handles the host holds; last: the last operation, what it was
\* given and what it returned.
VARIABLES heap, slot, errs, objs, last

vars == <<heap, slot, errs, objs, last>>

HeapCap == NStatic + MaxAlloc

RemoveAt(q, i) == SubSeq(q, 1, i - 1) \o SubSeq(q, i + 1, Len(q))

Rc(h, p) == IF p <= Len(h) THEN h[p].rc ELSE 0

\* The reference counts an operation changed: <<object, change>>.
Delta(h0, h1) ==
    {<<p, Rc(h1, p) - Rc(h0, p)>> : p \in 1..HeapCap} \ {<<p, 0>> : p \in 1..HeapCap}

\* The operation before, kept when this one is applied to its result.
Prev == [op |-> last.op, slotPre |-> last.slotPre, err |-> last.err,
         obj |-> last.obj, delta |-> last.delta]

NoPrev == [op |-> "none", slotPre |-> EmptySlot, err |-> NoErr, obj |-> NULL,
           delta |-> {}]

\* op: the operation; idx: the position in errs of the PyErr it produced or
\* acted on; arg: its scalar or pointer input; argk: what kind of object arg
\* pointed to (for a cast, the target type; for warn, what PyErr_WarnEx
\* returned, or "nul" for a message with a NUL byte); held: the PyErr it was applied
\* to; h0: the heap when it was called; r: its result; printed: what it wrote
\* to sys.stderr; follows: it is applied to what the operation before returned;
\* ffi: the indicator routines it called; val: the value object passed to new.
Rec(op, idx, arg, argk, held, h0, r, printed, follows) ==
    [op |-> op, idx |-> idx, arg |-> arg, argk |-> argk, slotPre |-> slot, held |-> held,
     tag |-> r.tag, err |-> r.err, obj |-> r.obj, printed |-> printed,
     ffi |-> r.ffi, val |-> NULL,
     delta |-> Delta(h0, r.heap), prev |-> IF follows THEN Prev ELSE NoPrev]

Init ==
    /\ heap = InitHeap
    /\ slot = EmptySlot
    /\ errs = <<>>
    /\ objs = <<>>
    /\ last = [op |-> "init", idx |-> 0, arg |-> 0, argk |-> "", slotPre |-> EmptySlot,
               held |-> NoErr, tag |-> "Unit", err |-> NoErr, obj |-> NULL,
               printed |-> NothingPrinted, ffi |-> <<>>, val |-> NULL, delta |-> {},
               prev |-> NoPrev]

\* In the actions the result r of the call is bound once, by \E r \in {call}.

\* Pointers a foreign call returns: NULL, or a new reference to an object.
Returned == {NULL, Msg, Inst}

\* Type parameters the host names: an exception class and a type that is no
\* exception class.
HostTypes == {ValueError, StrType}

\* Errors a failing foreign call sets: <<type, value, traceback>>.
Raised == {<<ValueError, Msg, Tb>>}

Messages == {<<119>>, <<119, 0, 119>>}

\* stacklevel: i32, passed on as Py_ssize_t.
StackLevels == {-1, 1}

\* Errors and handles alive at once, the pending error included.
NHeld(s, es, os) == Len(es) + Len(os) + (IF s.ptype = NULL THEN 0 ELSE 1)

\* The host takes what an operation returned: an Err(PyErr) joins errs, an
\* Ok(handle) joins objs.
Deliver(r) ==
    /\ errs' = IF r.tag = "Err" THEN Append(errs, r.err) ELSE errs
    /\ objs' = IF r.tag = "Ok" /\ r.obj # NULL THEN Append(objs, r.obj) ELSE objs
    /\ NHeld(slot', errs', objs') <= MaxHeld

Room == NHeld(slot, errs, objs) < MaxHeld

\* A foreign call fails: it sets the error indicator (PyErr_SetObject).
RuntimeRaises(x) ==
    /\ slot.ptype = NULL => Room
    /\ \E h1 \in {Py_XINCREF(Py_XINCREF(Py_INCREF(heap, x[1]), x[2]), x[3])} :
       \E r \in {PyErr_Restore(h1, slot, x[1], x[2], x[3])} :
          /\ heap' = r.heap
          /\ slot' = r.slot
          /\ last' = Rec("raise", 0, 0, "", NoErr, heap,
                         Res(r.heap, r.slot, "Unit", NoErr, NULL), NothingPrinted, FALSE)
    /\ UNCHANGED <<errs, objs>>

Occurred ==
    /\ last' = Rec("occurred", 0, 0, "", NoErr, heap,
                   Via("PyErr_Occurred",
                       Res(heap, slot, IF occurred(slot) THEN "True" ELSE "False",
                           NoErr, NULL)),
                   NothingPrinted, FALSE)
    /\ UNCHANGED <<heap, slot, errs, objs>>

Fetch ==
    /\ Room
    /\ \E r \in {fetch(heap, slot)} :
          /\ heap' = r.heap
          /\ slot' = r.slot
          /\ errs' = Append(errs, r.err)
          /\ last' = Rec("fetch", Len(errs) + 1, 0, "", NoErr, heap, r, NothingPrinted,
                         last.op = "fetch")
    /\ UNCHANGED objs

Restore(i) ==
    /\ \E r \in {restore(heap, slot, errs[i])} :
          /\ heap' = r.heap
          /\ slot' = r.slot
          /\ last' = Rec("restore", i, 0, "", errs[i], heap, r, NothingPrinted,
                         last.op = "fetch" /\ last.idx = i)
    /\ errs' = RemoveAt(errs, i)
    /\ UNCHANGED objs

\* Room is needed for the PyErr that is built, not for a call that panics.
New(T, j) ==
    /\ PyExceptionClass_Check(heap, T) => Room
    /\ \E r \in {new(heap, slot, T, objs[j])} :
          /\ heap' = r.heap
          /\ errs' = IF r.tag = "Ok" THEN Append(errs, r.err) ELSE errs
          /\ last' = [Rec("new", Len(errs) + 1, T, "", NoErr, heap, r, NothingPrinted,
                          FALSE) EXCEPT !.val = objs[j]]
    /\ UNCHANGED <<slot, objs>>

FromInstance(j) ==
    /\ \E r \in {from_instance(heap, slot, objs[j])} :
          /\ Len(r.heap) <= HeapCap
          /\ heap' = r.heap
          /\ errs' = Append(errs, r.err)
          /\ last' = Rec("from_instance", Len(errs) + 1, objs[j], heap[objs[j]].k, NoErr,
                         heap, r,
                         NothingPrinted, FALSE)
    /\ objs' = RemoveAt(objs, j)
    /\ UNCHANGED slot

\* from_instance(py.get_type::<T>()): the object passed is a type object.
FromInstanceOfType(T) ==
    /\ Room
    /\ \E h0 \in {get_type(heap, T)} :
       \E r \in {from_instance(h0, slot, T)} :
          /\ Len(r.heap) <= HeapCap
          /\ heap' = r.heap
          /\ errs' = Append(errs, r.err)
          /\ last' = Rec("from_instance", Len(errs) + 1, T, heap[T].k, NoErr, h0, r,
                         NothingPrinted, FALSE)
    /\ UNCHANGED <<slot, objs>>

\* new_lazy_init(py.get_type::<T>(), value): j = 0 passes None, otherwise the
\* handle objs[j] is moved in.
NewLazyInit(T, j) ==
    /\ j = 0 => Room
    /\ \E value \in {IF j = 0 THEN NULL ELSE objs[j]} :
       \E e \in {new_lazy_init(T, value)} :
          /\ heap' = get_type(heap, T)
          /\ errs' = Append(errs, e)
          /\ last' = Rec("new_lazy_init", Len(errs) + 1, T, "", NoErr, heap,
                         Res(heap', slot, "Ok", e, NULL), NothingPrinted, FALSE)
    /\ objs' = IF j = 0 THEN objs ELSE RemoveAt(objs, j)
    /\ UNCHANGED slot

Normalize(i) ==
    /\ \E r \in {normalize(heap, slot, errs[i])} :
          /\ Len(r.heap) <= HeapCap
          /\ heap' = r.heap
          /\ slot' = r.slot
          /\ errs' = [errs EXCEPT ![i] = r.err]
          /\ last' = Rec("normalize", i, 0, "", errs[i], heap, r, NothingPrinted,
                         last.op \in {"normalize", "instance"} /\ last.idx = i)
    /\ UNCHANGED objs

Instance(i, keep) ==
    /\ keep => Room
    /\ \E r \in {instance(heap, slot, errs[i])} :
       \E h1 \in {IF keep THEN r.heap ELSE drop_object(r.heap, r.obj)} :
          /\ Len(r.heap) <= HeapCap
          /\ heap' = h1
          /\ slot' = r.slot
          /\ errs' = [errs EXCEPT ![i] = r.err]
          /\ objs' = IF keep THEN Append(objs, r.obj) ELSE objs
          /\ last' = Rec("instance", i, 0, "", errs[i], heap, [r EXCEPT !.heap = h1],
                         NothingPrinted,
                         last.op \in {"normalize", "instance"} /\ last.idx = i)

\* #[derive(Clone)]: each present handle is cloned.
Clone(i) ==
    /\ Room
    /\ LET e == errs[i]
       IN /\ heap' = Py_XINCREF(Py_XINCREF(clone_object(heap, e.ptype), e.pvalue),
                                e.ptraceback)
          /\ last' = Rec("clone", Len(errs) + 1, 0, "", NoErr, heap,
                         Res(heap', slot, "Ok", e, NULL), NothingPrinted, FALSE)
    /\ errs' = Append(errs, errs[i])
    /\ UNCHANGED <<slot, objs>>

\* A PyErr goes out of scope: each present handle is dropped.
DropErr(i) ==
    /\ LET e == errs[i]
       IN /\ heap' = drop_option(drop_option(drop_object(heap, e.ptype), e.pvalue),
                                 e.ptraceback)
          /\ last' = Rec("drop", i, 0, "", NoErr, heap,
                         Res(heap', slot, "Unit", NoErr, NULL), NothingPrinted, FALSE)
    /\ errs' = RemoveAt(errs, i)
    /\ UNCHANGED <<slot, objs>>

ReturnedOk == {"result_from_owned_ptr", "from_owned_ptr_or_panic",
               "result_cast_from_owned_ptr", "cast_from_owned_ptr_or_panic"}

\* A PyObject handle goes out of scope.
DropObj(j) ==
    /\ heap' = drop_object(heap, objs[j])
    /\ last' = Rec("drop_object", 0, objs[j], "", NoErr, heap,
                   Res(heap', slot, "Unit", NoErr, objs[j]), NothingPrinted,
                   last.op \in ReturnedOk /\ last.tag = "Ok" /\ j = Len(objs))
    /\ objs' = RemoveAt(objs, j)
    /\ UNCHANGED <<slot, errs>>

PrintErr(i, set_sys_last_vars) ==
    /\ \E r \in {IF set_sys_last_vars
                THEN print_and_set_sys_last_vars(heap, slot, errs[i])
                ELSE print(heap, slot, errs[i])} :
          /\ Len(r.heap) <= HeapCap
          /\ heap' = r.heap
          /\ slot' = r.slot
          /\ last' = Rec(IF set_sys_last_vars THEN "print_and_set_sys_last_vars" ELSE "print",
                         i, 0, "", errs[i], heap, r, r.printed, FALSE)
    /\ errs' = RemoveAt(errs, i)
    /\ UNCHANGED objs

Warn(category, message, stacklevel, escalate) ==
    /\ \E r \in {warn(heap, slot, category, message, stacklevel, escalate)} :
          /\ Len(r.heap) <= HeapCap
          /\ heap' = r.heap
          /\ slot' = r.slot
          /\ Deliver(r)
          /\ last' = Rec("warn", Len(errs) + 1, stacklevel,
                         IF \E k \in 1..Len(message) : message[k] = 0 THEN "nul"
                         ELSE IF escalate THEN "-1" ELSE "0",
                         NoErr, heap, r, NothingPrinted, FALSE)

ErrorOnMinusOne(n) ==
    /\ \E r \in {error_on_minusone(heap, slot, n)} :
          /\ heap' = r.heap
          /\ slot' = r.slot
          /\ Deliver(r)
          /\ last' = Rec("error_on_minusone", Len(errs) + 1, n, "", NoErr, heap, r,
                         NothingPrinted, FALSE)

\* The pointer adapters are applied to what a foreign call returned: p is
\* NULL or carries the new reference the call made (h0).
ResultFromOwnedPtr(p) ==
    /\ \E h0 \in {Py_XINCREF(heap, p)} :
       \E r \in {result_from_owned_ptr(h0, slot, p)} :
          /\ heap' = r.heap
          /\ slot' = r.slot
          /\ Deliver(r)
          /\ last' = Rec("result_from_owned_ptr", Len(errs) + 1, p, "", NoErr, h0, r,
                         NothingPrinted, FALSE)

FromOwnedPtrOrPanic(p) ==
    /\ \E h0 \in {Py_XINCREF(heap, p)} :
       \E r \in {from_owned_ptr_or_panic(h0, slot, p)} :
          /\ Len(r.heap) <= HeapCap
          /\ heap' = r.heap
          /\ slot' = r.slot
          /\ Deliver(r)
          /\ last' = Rec("from_owned_ptr_or_panic", 0, p, "", NoErr, h0, r, r.printed, FALSE)

ResultCastFromOwnedPtr(p, cap) ==
    /\ \E h0 \in {Py_XINCREF(heap, p)} :
       \E r \in {result_cast_from_owned_ptr(h0, slot, p, cap)} :
          /\ heap' = r.heap
          /\ slot' = r.slot
          /\ Deliver(r)
          /\ last' = Rec("result_cast_from_owned_ptr", Len(errs) + 1, p, cap, NoErr, h0, r,
                         NothingPrinted, FALSE)

CastFromOwnedPtrOrPanic(p, cap) ==
    /\ \E h0 \in {Py_XINCREF(heap, p)} :
       \E r \in {cast_from_owned_ptr_or_panic(h0, slot, p, cap)} :
          /\ Len(r.heap) <= HeapCap
          /\ heap' = r.heap
          /\ slot' = r.slot
          /\ Deliver(r)
          /\ last' = Rec("cast_from_owned_ptr_or_panic", 0, p, cap, NoErr, h0, r, r.printed,
                         FALSE)

Next ==
    \/ \E x \in Raised : RuntimeRaises(x)
    \/ Occurred
    \/ Fetch
    \/ \E i \in 1..Len(errs) : Restore(i)
    \/ \E T \in HostTypes, j \in 1..Len(objs) : New(T, j)
    \/ \E j \in 1..Len(objs) : FromInstance(j)
    \/ \E T \in HostTypes : FromInstanceOfType(T)
    \/ \E T \in HostTypes, j \in 0..Len(objs) : NewLazyInit(T, j)
    \/ \E i \in 1..Len(errs) : Normalize(i)
    \/ \E i \in 1..Len(errs) : \E keep \in BOOLEAN : Instance(i, keep)
    \/ \E i \in 1..Len(errs) : Clone(i)
    \/ \E i \in 1..Len(errs) : DropErr(i)
    \/ \E j \in 1..Len(objs) : DropObj(j)
    \/ \E i \in 1..Len(errs), b \in BOOLEAN : PrintErr(i, b)
    \/ \E m \in Messages, l \in StackLevels, b \in BOOLEAN : Warn(ValueError, m, l, b)
    \/ \E n \in CInts : ErrorOnMinusOne(n)
    \/ \E p \in Returned : ResultFromOwnedPtr(p)
    \/ \E p \in Returned : FromOwnedPtrOrPanic(p)
    \/ \E p \in Returned, cap \in Caps : ResultCastFromOwnedPtr(p, cap)
    \/ \E p \in Returned, cap \in Caps : CastFromOwnedPtrOrPanic(p, cap)

Spec == Init /\ [][Next]_vars

\* ================================================================ claims
AsSlot(e) == Slot(e.ptype, e.pvalue, e.ptraceback)

AsErr(s) == PyErr(s.ptype, s.pvalue, s.ptraceback)

Fallback == PyErr(SystemError, NULL, NULL)

\* What fetch() hands out for a slot content s.
Fetched(s) == IF occurred(s) THEN AsErr(s) ELSE Fallback

Normalizing == {"normalize", "instance"}

\* C1: when an error is pending, fetch() followed at once by restore() of the
\* fetched PyErr leaves an error pending, and the slot holds the same three
\* handles (type, value, traceback) as before the fetch.
C1_RoundTrip ==
    (last.op = "restore" /\ last.prev.op = "fetch" /\ occurred(last.prev.slotPre))
        => /\ occurred(slot)
           /\ slot = last.prev.slotPre

C1_Witness ==
    /\ last.op = "restore"
    /\ last.prev.op = "fetch"
    /\ occurred(last.prev.slotPre)
    /\ last.prev.slotPre.pvalue # NULL
    /\ last.prev.slotPre.ptraceback # NULL

\* C2: fetch() on a pending error returns exactly the three handles that were
\* in the slot and leaves the slot empty; an empty slot becomes occupied only
\* by restore() or by a failing runtime call.
C2_FetchClears ==
    /\ (last.op = "fetch" /\ occurred(last.slotPre))
          => /\ last.err = AsErr(last.slotPre)
             /\ slot = EmptySlot
             /\ ~occurred(slot)
    /\ (~occurred(last.slotPre) /\ occurred(slot)) => last.op \in {"restore", "raise"}

C2_Witness ==
    /\ last.op = "fetch"
    /\ occurred(last.slotPre)
    /\ last.err.pvalue # NULL
    /\ last.err.ptraceback # NULL

\* C3: fetch() on an empty slot returns a PyErr of type SystemError with no
\* value and no traceback and leaves the slot empty; a second fetch() right
\* after it returns the same fallback.
C3_FetchEmpty ==
    /\ (last.op = "fetch" /\ ~occurred(last.slotPre))
          => /\ last.tag = "Ok"
             /\ last.err = Fallback
             /\ slot = EmptySlot
    /\ (last.op = "fetch" /\ last.prev.op = "fetch" /\ ~occurred(last.prev.slotPre))
          => /\ ~occurred(last.slotPre)
             /\ last.err = last.prev.err

C3_Witness ==
    /\ last.op = "fetch"
    /\ last.prev.op = "fetch"
    /\ ~occurred(last.prev.slotPre)
    /\ Len(errs) = 2

\* The objects a slot content refers to.
Referents(s) == {s.ptype, s.pvalue, s.ptraceback} \ {NULL}

\* How many of the three pointers of s point to p.
Refs(s, p) ==
    (IF s.ptype = p THEN 1 ELSE 0) + (IF s.pvalue = p THEN 1 ELSE 0)
        + (IF s.ptraceback = p THEN 1 ELSE 0)

\* C4: restore(t) moves t's three handles into the slot without releasing
\* them: afterwards an error is pending and the slot holds exactly t's type,
\* value and traceback (a PyErr without value included), and the objects they
\* point to are alive.  No reference count rises; the only counts that fall
\* are those released with the error restore() displaced from an occupied slot,
\* so with an empty slot no count changes at all.
C4_RestoreMoves ==
    last.op = "restore"
        => /\ occurred(slot)
           /\ slot = AsSlot(last.held)
           /\ \A p \in Referents(slot) : heap[p] # Freed /\ heap[p].rc >= Refs(slot, p)
           /\ ~occurred(last.slotPre) => last.delta = {}
           /\ \A d \in last.delta : d[2] < 0

C4_Witness ==
    /\ last.op = "restore"
    /\ last.held.pvalue = NULL
    /\ ~occurred(last.slotPre)
    /\ occurred(slot)

\* C5: error_on_minusone(-1) returns Err with the PyErr fetched from the slot
\* and leaves the slot empty; for every other n it returns Ok(()) whether or
\* not an error is pending, and changes neither the slot nor any count.
C5_ErrorOnMinusOne ==
    last.op = "error_on_minusone"
        => IF last.arg = -1
           THEN /\ last.tag = "Err"
                /\ last.err = Fetched(last.slotPre)
                /\ slot = EmptySlot
           ELSE /\ last.tag = "Ok"
                /\ last.err = NoErr
                /\ slot = last.slotPre
                /\ last.delta = {}

C5_Witness ==
    /\ last.op = "error_on_minusone"
    /\ last.arg = -1
    /\ occurred(last.slotPre)
    /\ last.tag = "Err"

\* The sharp edge of C5: a result other than -1 while an error is pending.
C5_WitnessPendingOk ==
    /\ last.op = "error_on_minusone"
    /\ last.arg # -1
    /\ occurred(slot)
    /\ last.tag = "Ok"

\* C6: result_from_owned_ptr(NULL) returns Err(fetch()); for a non-null
\* pointer it returns Ok with a handle on that object, adds no reference and
\* leaves the slot alone; dropping the handle lowers the object's count by
\* exactly one.
C6_ResultFromOwnedPtr ==
    /\ last.op = "result_from_owned_ptr"
          => IF last.arg = NULL
             THEN /\ last.tag = "Err"
                  /\ last.err = Fetched(last.slotPre)
                  /\ slot = EmptySlot
             ELSE /\ last.tag = "Ok"
                  /\ last.obj = last.arg
                  /\ last.delta = {}
                  /\ slot = last.slotPre
    /\ (last.op = "drop_object" /\ last.prev.op = "result_from_owned_ptr")
          => /\ last.obj = last.prev.obj
             /\ last.prev.delta = {}
             /\ last.delta = {<<last.obj, -1>>}

C6_Witness ==
    /\ last.op = "drop_object"
    /\ last.prev.op = "result_from_owned_ptr"
    /\ last.obj # NULL

\* C7: from_instance(obj) always returns a PyErr without traceback, of one
\* of three shapes: (a) obj an exception instance: type is obj's class and
\* value is obj; (b) obj an exception class: type is obj and there is no
\* value; (c) anything else: type is TypeError and value is the string
\* "exceptions must derive from BaseException".
C7_FromInstance ==
    last.op = "from_instance"
        => /\ last.tag = "Ok"
           /\ last.err.ptraceback = NULL
           /\ IF last.argk = "inst"
              THEN /\ last.err.pvalue = last.arg
                   /\ last.err.ptype = heap[last.arg].cls
              ELSE IF last.argk = "exctype"
              THEN /\ last.err.ptype = last.arg
                   /\ last.err.pvalue = NULL
              ELSE /\ last.err.ptype = TypeError
                   /\ last.err.pvalue # NULL
                   /\ heap[last.err.pvalue].k = "str"
                   /\ heap[last.err.pvalue].txt = BaseExceptionMsg

C7_Witness ==
    /\ last.op = "from_instance"
    /\ last.argk = "str"
    /\ last.err.ptype = TypeError

IsInstanceOf(h, p, type) ==
    /\ h[p].k = "inst"
    /\ PyObject_IsSubclass(h, h[p].cls, type)

\* C8: after normalize() (instance() calls it) a value that is present is an
\* instance of the PyErr's type or of a subclass of it.
C8_NormalizedIsInstance ==
    (last.op \in Normalizing /\ last.err.pvalue # NULL)
        => IsInstanceOf(heap, last.err.pvalue, last.err.ptype)

\* C9: instance() called twice in a row on a PyErr returns the same object,
\* and normalize() on a PyErr that has just been normalized leaves its type,
\* value and traceback as they were.
C9_NormalizeIdempotent ==
    /\ (last.op = "instance" /\ last.prev.op = "instance") => last.obj = last.prev.obj
    /\ (last.op \in Normalizing /\ last.prev.op \in Normalizing)
          => /\ last.held = last.prev.err
             /\ last.err = last.held

C9_Witness ==
    /\ last.op = "instance"
    /\ last.prev.op = "instance"
    /\ last.obj > NStatic

\* C10 as stated: both functions panic on NULL after printing the pending
\* error, and on a non-null pointer return an owned handle, slot untouched.
C10_OrPanicAsStated ==
    last.op \in {"from_owned_ptr_or_panic", "cast_from_owned_ptr_or_panic"}
        => IF last.arg = NULL
           THEN /\ last.tag = "Panic"
                /\ last.obj = NULL
                /\ occurred(last.slotPre) => last.printed # NothingPrinted
                /\ slot = EmptySlot
           ELSE /\ last.tag = "Ok"
                /\ last.obj = last.arg
                /\ slot = last.slotPre

\* C10, amended: on NULL both print the pending error (if any), clear the
\* slot and panic, returning no handle.  On a non-null pointer the slot is
\* untouched; from_owned_ptr_or_panic returns an owned handle, and
\* cast_from_owned_ptr_or_panic returns one exactly when the checked downcast
\* succeeds: when it fails it releases the reference and panics, printing
\* nothing.
C10_OrPanic ==
    last.op \in {"from_owned_ptr_or_panic", "cast_from_owned_ptr_or_panic"}
        => IF last.arg = NULL
           THEN /\ last.tag = "Panic"
                /\ last.obj = NULL
                /\ occurred(last.slotPre) => last.printed # NothingPrinted
                /\ slot = EmptySlot
           ELSE /\ slot = last.slotPre
                /\ last.printed = NothingPrinted
                /\ IF last.op = "from_owned_ptr_or_panic"
                      \/ DowncastCheck(heap, last.arg, last.argk)
                   THEN /\ last.tag = "Ok"
                        /\ last.obj = last.arg
                        /\ last.delta = {}
                   ELSE /\ last.tag = "Panic"
                        /\ last.obj = NULL
                        /\ last.delta = {<<last.arg, -1>>}

C10_Witness ==
    /\ last.op = "cast_from_owned_ptr_or_panic"
    /\ last.arg # NULL
    /\ last.tag = "Panic"

\* C11: result_cast_from_owned_ptr::<T>(p): a null p gives Err(fetch()); a
\* non-null p whose object passes the checked downcast to T gives Ok with a
\* handle on that object; a non-null p whose object fails it gives Err of a
\* PyErr of type TypeError without value and traceback, and in that case no
\* indicator routine is called and the slot is as it was.
C11_ResultCast ==
    last.op = "result_cast_from_owned_ptr"
        => IF last.arg = NULL
           THEN /\ last.tag = "Err"
                /\ last.err = Fetched(last.slotPre)
                /\ slot = EmptySlot
           ELSE IF DowncastCheck(heap, last.arg, last.argk)
           THEN /\ last.tag = "Ok"
                /\ last.obj = last.arg
                /\ slot = last.slotPre
           ELSE /\ last.tag = "Err"
                /\ last.err = PyErr(TypeError, NULL, NULL)
                /\ last.ffi = <<>>
                /\ slot = last.slotPre

C11_Witness ==
    /\ last.op = "result_cast_from_owned_ptr"
    /\ last.arg # NULL
    /\ last.tag = "Err"
    /\ occurred(last.slotPre)
    /\ occurred(slot)

\* C12: new::<T>(value) panics when T's type object is no exception class:
\* no PyErr is produced and the slot is unchanged; when it is one, the result
\* has type T's type object, value Some(value) and no traceback.
C12_New ==
    last.op = "new"
        => /\ slot = last.slotPre
           /\ last.ffi = <<>>
           /\ IF PyExceptionClass_Check(heap, last.arg)
              THEN /\ last.tag = "Ok"
                   /\ last.err = PyErr(last.arg, last.val, NULL)
                   /\ last.val # NULL
                   /\ Len(errs) = last.idx
                   /\ errs[last.idx] = last.err
              ELSE /\ last.tag = "Panic"
                   /\ last.err = NoErr
                   /\ Len(errs) < last.idx
                   /\ last.delta = {}

C12_Witness ==
    /\ last.op = "new"
    /\ last.tag = "Panic"
    /\ occurred(slot)

\* The other case of C12: a PyErr is built.
C12_WitnessOk ==
    /\ last.op = "new"
    /\ last.tag = "Ok"
    /\ last.err.pvalue = Msg

\* C13: occurred() is true exactly when the slot is not empty, in every
\* reachable state, and a call of it changes neither the slot nor any
\* reference count.
C13_Occurred ==
    /\ occurred(slot) <=> slot # EmptySlot
    /\ last.op = "occurred"
          => /\ last.tag = (IF last.slotPre # EmptySlot THEN "True" ELSE "False")
             /\ slot = last.slotPre
             /\ last.delta = {}

C13_Witness ==
    /\ last.op = "occurred"
    /\ last.tag = "True"
    /\ slot.pvalue = NULL

\* C14: warn(category, message, stacklevel) has one of two results for every
\* category, message and stack level: Err with the PyErr fetched from the
\* slot exactly when PyErr_WarnEx returns -1, and Ok(()) otherwise.
C14_Warn ==
    last.op = "warn"
        => IF last.argk = "-1"
           THEN /\ last.tag = "Err"
                /\ last.err.ptype = ValueError
                /\ heap[last.err.pvalue].txt = "warning"
                /\ slot = EmptySlot
           ELSE /\ last.tag = "Ok"
                /\ last.err = NoErr

\* How many references to p the holders have: the fields of the host's PyErr
\* values, the host's handles, the slot, and the objects that keep p as their
\* constructor argument.
Holders(p) ==
    Cardinality({i \in 1..Len(errs) : errs[i].ptype = p})
        + Cardinality({i \in 1..Len(errs) : errs[i].pvalue = p})
        + Cardinality({i \in 1..Len(errs) : errs[i].ptraceback = p})
        + Cardinality({j \in 1..Len(objs) : objs[j] = p})
        + Refs(slot, p)
        + Cardinality({q \in 1..Len(heap) : heap[q].args = p})

\* C15: over any sequence of fetch, restore, normalize, instance, clone, drop,
\* from_instance, new_lazy_init and the result adapters every reference has
\* exactly one holder: the count of each object is the number of PyErr
\* fields, handles, slot fields and objects that hold it (plus the
\* interpreter's own reference to its built-in objects), so nothing is
\* released twice and nothing leaks; a deallocated place has no holder; a
\* dropped PyErr only lowers counts and restore lowers none of its own.
C15_Ownership ==
    /\ \A p \in 1..Len(heap) :
          IF heap[p] = Freed
          THEN Holders(p) = 0
          ELSE heap[p].rc = Holders(p) + (IF p <= NStatic THEN 1 ELSE 0)
    /\ last.op = "drop" => \A d \in last.delta : d[2] < 0
    /\ (last.op = "restore" /\ ~occurred(last.slotPre)) => last.delta = {}

C15_Witness ==
    /\ last.op = "drop"
    /\ \E d \in last.delta : d[1] > NStatic /\ heap[d[1]] = Freed
    /\ \E d \in last.delta : d[1] = Tb

\* The routines of the runtime that work on the error indicator.
Claiming == {"PyErr_Fetch", "PyErr_PrintEx", "PyErr_Print"}

SlotRoutines == Claiming \cup {"PyErr_Restore", "PyErr_Occurred", "PyErr_WarnEx"}

Called == {last.ffi[k] : k \in 1..Len(last.ffi)}

\* C16 as stated: every operation works on the slot only through
\* fetch-and-clear and swap-in, and none reads it without taking its contents.
C16_OnlyFetchAndRestore ==
    /\ Called \subseteq {"PyErr_Fetch", "PyErr_Restore"}
    /\ (Called # {} /\ "PyErr_Restore" \notin Called) => slot = EmptySlot

\* C16, amended: the slot changes only in an operation that calls one of six
\* runtime routines: PyErr_Fetch and PyErr_Restore, PyErr_PrintEx (print,
\* print_and_set_sys_last_vars) and PyErr_Print (the panicking adapters),
\* PyErr_WarnEx (warn), and PyErr_Occurred.  Fetch and the print routines
\* take the contents and leave the slot empty; occurred() alone reads the
\* slot through PyErr_Occurred and leaves its contents in place.
C16_SlotAccess ==
    /\ Called \subseteq SlotRoutines
    /\ (slot # last.slotPre /\ last.op # "raise") => Called # {}
    /\ (Called \cap Claiming # {} /\ last.ffi[Len(last.ffi)] \in Claiming)
          => slot = EmptySlot
    /\ "PyErr_Occurred" \in Called <=> last.op = "occurred"
    /\ last.op = "occurred" => last.ffi = <<"PyErr_Occurred">> /\ slot = last.slotPre

C16_Witness ==
    /\ last.op = "occurred"
    /\ last.tag = "True"
    /\ slot.pvalue # NULL
    /\ last.ffi = <<"PyErr_Occurred">>

IsExceptionClass(p) == p # NULL /\ PyExceptionClass_Check(heap, p)

IsTypeObject(p) == p # NULL /\ heap[p].k \in {"exctype", "type"}

C18_NormalizeAtomic ==
    last.op \in Normalizing
        => /\ last.tag # "Panic"
           /\ errs[last.idx] = last.err
           /\ last.err.ptype # NULL
           /\ last.err.pvalue # NULL
           /\ last.err.ptraceback = last.held.ptraceback
           /\ IF IsExceptionClass(last.held.ptype)
              THEN /\ IsInstanceOf(heap, last.err.pvalue, last.held.ptype)
                   /\ heap[last.err.pvalue].cls = last.err.ptype
              ELSE /\ last.err.ptype = last.held.ptype
                   /\ last.err.pvalue
                         = (IF last.held.pvalue = NULL THEN NoneObj ELSE last.held.pvalue)
           /\ \A p \in Referents(AsSlot(last.err)) :
                 /\ heap[p] # Freed
                 /\ heap[p].rc = Holders(p) + (IF p <= NStatic THEN 1 ELSE 0)
           /\ slot = last.slotPre
           /\ last.ffi = <<>>

C18_Witness ==
    /\ last.op = "normalize"
    /\ last.held.ptype = ValueError
    /\ last.err.ptype = UnicodeDecodeError
    /\ last.err.pvalue = Inst

Printing == {"print", "print_and_set_sys_last_vars"}

\* C19: print(t) and print_and_set_sys_last_vars(t) first restore t into the
\* slot and then call the runtime's print routine: what is printed is t (its
\* type, or the more specific class of its value), not the error that was
\* pending before; afterwards t is consumed (its references are released or
\* held by others, none is left dangling) and the slot is empty, whatever it
\* held before the call.
C19_Print ==
    last.op \in Printing
        => /\ last.ffi = <<"PyErr_Restore", "PyErr_PrintEx">>
           /\ slot = EmptySlot
           /\ ~occurred(slot)
           /\ last.printed # NothingPrinted
           /\ IF IsExceptionClass(last.held.ptype)
              THEN PyObject_IsSubclass(heap, last.printed[1], last.held.ptype)
              ELSE last.printed[1] = last.held.ptype
           /\ \A p \in Referents(AsSlot(last.held)) \cup Referents(last.slotPre) :
                 IF heap[p] = Freed
                 THEN Holders(p) = 0
                 ELSE heap[p].rc = Holders(p) + (IF p <= NStatic THEN 1 ELSE 0)

C19_Witness ==
    /\ last.op \in Printing
    /\ occurred(last.slotPre)
    /\ last.slotPre.ptype # last.held.ptype
    /\ last.printed[1] = last.held.ptype

====
